---- MODULE Spec2Model ----
(***************************************************************************)
(* Request/response schemas of the urban API services endpoints            *)
(* (idu_api/urban_api/schemas/services.py) and the not-found exception     *)
(* (idu_api/urban_api/exceptions/logic/common.py).                         *)
(*                                                                         *)
(* Every operation is a synchronous function of its input; a request is    *)
(* modelled as: idle -> operation applied to an input -> outcome -> idle.  *)
(***************************************************************************)
EXTENDS Integers, Sequences, FiniteSets, TLC

\* ---------------------------------------------------------------- bounds
MaxKeys == 3          \* keys in a PATCH body
MaxTerritories == 2   \* territories attached to a service DTO
MaxPosts == 2         \* create records alive at once
MaxTime == 2          \* timestamps 1..MaxTime, clock at MaxTime + 1

\* ------------------------------------------------------- JSON-like values
Null == [t |-> "null"]
IntV(i) == [t |-> "int", i |-> i]
StrV(s) == [t |-> "str", s |-> s]
\* a string-keyed map, abstracted to its key set
MapV(m) == [t |-> "map", m |-> m]
ListV(l) == [t |-> "list", l |-> l]
\* a request body that is a JSON object: ordered (key, value) pairs
ObjV(items) == [t |-> "obj", items |-> items]

\* the string "7" stands for every string that spells an integer
NumericStrings == {"7"}

Values == {Null, IntV(1), StrV("a"), StrV("7"), MapV({})}

\* ---------------------------------------------------------- field tables
PatchFields == {"service_type_id", "territory_type_id", "name", "capacity_real", "properties"}

PutFields == {"service_type_id", "territory_type_id", "name", "capacity_real", "properties"}

PostFields == {"physical_object_id", "object_geometry_id", "service_type_id",
               "territory_type_id", "name", "capacity_real", "properties"}

\* an undeclared key a client may send
ExtraKey == "comment"

\* ------------------------------------------------------- field decoding
Err(msg) == [t |-> "err", msg |-> msg]

IsErr(v) == v.t = "err"

\* pydantic int (lax mode): ints, and strings spelling an integer
DecodeInt(v) ==
    CASE v.t = "int" -> v
      [] v.t = "str" /\ v.s \in NumericStrings -> IntV(7)
      [] OTHER -> Err("Input should be a valid integer")

DecodeStr(v) ==
    IF v.t = "str" THEN v ELSE Err("Input should be a valid string")

DecodeDict(v) ==
    IF v.t = "map" THEN v ELSE Err("Input should be a valid dictionary")

\* Optional[T]: None is accepted, everything else goes to T
DecodeOptional(v, inner) ==
    IF v.t = "null" THEN Null ELSE inner

\* ---------------------------------------------------------- PATCH schema
\* Python truthiness of the raw body, as used by `if not values`
Truthy(v) ==
    CASE v.t = "null" -> FALSE
      [] v.t = "obj" -> Len(v.items) > 0
      [] v.t = "list" -> Len(v.l) > 0
      [] v.t = "str" -> v.s # ""
      [] v.t = "int" -> v.i # 0
      [] OTHER -> TRUE

NoExc == [exc |-> "none", msg |-> ""]

Raise(exc, msg) == [exc |-> exc, msg |-> msg]

check_empty_request_null_only(values) ==
    IF values.t = "null"
    THEN Raise("ValueError", "request body cannot be empty")
    ELSE NoExc

check_empty_request(values) ==
    IF ~Truthy(values)
    THEN Raise("ValueError", "request body cannot be empty")
    ELSE NoExc

\* index of the first null-valued item, 0 when there is none
RECURSIVE FirstNull(_, _)
FirstNull(items, i) ==
    IF i > Len(items) THEN 0
    ELSE IF items[i][2].t = "null" THEN i
    ELSE FirstNull(items, i + 1)

disallow_nulls_declared_only(values) ==
    IF values.t # "obj"
    THEN Raise("AttributeError", "object has no attribute 'items'")
    ELSE LET decl == SelectSeq(values.items, LAMBDA p : p[1] \in PatchFields)
             n == FirstNull(decl, 1)
         IN  IF n = 0 THEN NoExc
             ELSE Raise("ValueError", decl[n][1] \o " cannot be null")

disallow_nulls(values) ==
    IF values.t # "obj"
    THEN Raise("AttributeError", "object has no attribute 'items'")
    ELSE LET n == FirstNull(values.items, 1)
         IN  IF n = 0 THEN NoExc
             ELSE Raise("ValueError", values.items[n][1] \o " cannot be null")

\* mode="before" model validators wrap the schema in definition order, so
\* the one defined last is outermost and runs first
PatchBeforeValidators(values) ==
    LET r == disallow_nulls(values)
    IN  IF r.exc # "none" THEN r ELSE check_empty_request(values)

Keys(items) == {items[i][1] : i \in DOMAIN items}

ValueOf(items, k) == items[CHOOSE i \in DOMAIN items : items[i][1] = k][2]

PatchFieldDecode(f, v) ==
    CASE f \in {"service_type_id", "territory_type_id", "capacity_real"} ->
            DecodeOptional(v, DecodeInt(v))
      [] f = "name" -> DecodeOptional(v, DecodeStr(v))
      [] f = "properties" -> DecodeOptional(v, DecodeDict(v))

Accepted(rec) == [kind |-> "ok", record |-> rec, errors |-> {}]

ValidationError(errs) == [kind |-> "ValidationError", record |-> Null, errors |-> errs]

Escaped(exc, msg) == [kind |-> exc, record |-> Null, errors |-> {msg}]

\* every declared field filled in and marked as supplied
PatchRecord_all_set(present, dec) ==
    [fields_set |-> PatchFields,
     values |-> [f \in PatchFields |-> IF f \in present THEN dec[f] ELSE Null]]

\* the validated model: attributes of fields left out hold the declared
\* default None and are not recorded in model_fields_set
PatchRecord(present, dec) ==
    [fields_set |-> present,
     values |-> [f \in PatchFields |-> IF f \in present THEN dec[f] ELSE Null]]

\* ServicesDataPatch.model_validate(body)
ServicesDataPatch(body) ==
    LET r == PatchBeforeValidators(body)
    IN  IF r.exc = "ValueError" THEN ValidationError({r.msg})
        ELSE IF r.exc # "none" THEN Escaped(r.exc, r.msg)
        ELSE IF body.t # "obj"
        THEN ValidationError({"Input should be a valid dictionary or instance"})
        ELSE LET present == Keys(body.items) \cap PatchFields
                 dec == [f \in present |-> PatchFieldDecode(f, ValueOf(body.items, f))]
                 bad == {f \in present : IsErr(dec[f])}
             IN  IF bad # {}
                 THEN ValidationError({dec[f].msg : f \in bad})
                 ELSE Accepted(PatchRecord(present, dec))

\* ----------------------------------------------------------- POST schema
PostRequired == {"physical_object_id", "object_geometry_id", "service_type_id"}

PostFieldDecode(f, v) ==
    CASE f \in PostRequired -> DecodeInt(v)
      [] f \in {"territory_type_id", "capacity_real"} -> DecodeOptional(v, DecodeInt(v))
      [] f = "name" -> DecodeOptional(v, DecodeStr(v))
      [] f = "properties" -> DecodeDict(v)

\* field validation of ServicesDataPost; a field left out takes its default
\* (None), except properties, whose default comes from default_factory
ServicesDataPostFields(body) ==
    LET present == DOMAIN body \cap PostFields
        missing == PostRequired \ present
        dec == [f \in present |-> PostFieldDecode(f, body[f])]
        bad == {f \in present : IsErr(dec[f])}
    IN  IF missing # {} \/ bad # {}
        THEN ValidationError({dec[f].msg : f \in bad} \cup
                             (IF missing # {} THEN {"Field required"} ELSE {}))
        ELSE Accepted([fields_set |-> present,
                       values |-> [f \in PostFields \ {"properties"} |->
                                     IF f \in present THEN dec[f] ELSE Null]])

\* one dict object evaluated once and handed to every record
default_factory_shared(posts, heap) ==
    IF \E i \in DOMAIN posts : "properties" \notin posts[i].fields_set
    THEN posts[CHOOSE i \in DOMAIN posts : "properties" \notin posts[i].fields_set].properties
    ELSE Len(heap) + 1

\* default_factory=dict: a new dict object on every call
default_factory(posts, heap) == Len(heap) + 1

\* ------------------------------------------------------------ PUT schema
PutFieldDecode_name_not_null(f, v) ==
    CASE f = "service_type_id" -> DecodeInt(v)
      [] f \in {"territory_type_id", "capacity_real"} -> DecodeOptional(v, DecodeInt(v))
      [] f = "name" -> DecodeStr(v)
      [] f = "properties" -> DecodeDict(v)

\* every field is declared with Field(...): required, no default
PutFieldDecode(f, v) ==
    CASE f = "service_type_id" -> DecodeInt(v)
      [] f \in {"territory_type_id", "capacity_real"} -> DecodeOptional(v, DecodeInt(v))
      [] f = "name" -> DecodeOptional(v, DecodeStr(v))
      [] f = "properties" -> DecodeDict(v)

\* ServicesDataPut.model_validate(body); body is a function key -> value
ServicesDataPut(body) ==
    LET present == DOMAIN body \cap PutFields
        missing == PutFields \ present
        dec == [f \in present |-> PutFieldDecode(f, body[f])]
        bad == {f \in present : IsErr(dec[f])}
    IN  IF missing # {} \/ bad # {}
        THEN ValidationError({dec[f].msg : f \in bad} \cup
                             (IF missing # {} THEN {"Field required"} ELSE {}))
        ELSE Accepted([fields_set |-> present, values |-> dec])

\* ------------------------------------------------------- read-side schemas
\* nested response schemas, constructed by keyword
ServiceTypes(service_type_id, urban_function_id, name, capacity_modeled, code) ==
    [service_type_id |-> service_type_id, urban_function_id |-> urban_function_id,
     name |-> name, capacity_modeled |-> capacity_modeled, code |-> code]

TerritoryType(territory_type_id, name) ==
    [territory_type_id |-> territory_type_id, name |-> name]

ShortTerritory(territory_id, name) == [territory_id |-> territory_id, name |-> name]

\* Geometry.from_shapely_geometry: native geometry -> type + coordinate arrays
from_shapely_geometry(g) == [type |-> g.geom_type, coordinates |-> g.coords]

MapSeq(s, Op(_)) == [i \in DOMAIN s |-> Op(s[i])]

\* field types shared by ServicesData, ServiceWithTerritories and
\* ServicesDataWithGeometry
ReadFieldDecode_name_required(f, v) ==
    CASE f = "name" -> DecodeStr(v)
      [] f = "capacity_real" -> DecodeOptional(v, DecodeInt(v))
      [] f = "properties" -> DecodeDict(v)

ReadFieldDecode(f, v) ==
    CASE f = "name" -> DecodeOptional(v, DecodeStr(v))
      [] f = "capacity_real" -> DecodeOptional(v, DecodeInt(v))
      [] f = "properties" -> DecodeDict(v)

ReadFields == {"name", "capacity_real", "properties"}

\* cls(**kwargs): validate the decoded fields, keep the rest as passed
Construct(kwargs) ==
    LET dec == [f \in ReadFields |-> ReadFieldDecode(f, kwargs[f])]
        bad == {f \in ReadFields : IsErr(dec[f])}
    IN  IF bad # {}
        THEN ValidationError({dec[f].msg : f \in bad})
        ELSE Accepted([f \in DOMAIN kwargs |-> IF f \in ReadFields THEN dec[f] ELSE kwargs[f]])

\* the keyword arguments common to the three from_dto constructors
CommonKwargs_default_timestamps(dto, now) ==
    [service_id |-> dto.service_id,
     service_type |-> ServiceTypes(dto.service_type_id, dto.urban_function_id,
                                   dto.service_type_name,
                                   dto.service_type_capacity_modeled,
                                   dto.service_type_code),
     territory_type |-> TerritoryType(dto.territory_type_id, dto.territory_type_name),
     name |-> dto.name,
     capacity_real |-> dto.capacity_real,
     properties |-> dto.properties,
     created_at |-> now,
     updated_at |-> now]

CommonKwargs(dto, now) ==
    [service_id |-> dto.service_id,
     service_type |-> ServiceTypes(dto.service_type_id, dto.urban_function_id,
                                   dto.service_type_name,
                                   dto.service_type_capacity_modeled,
                                   dto.service_type_code),
     territory_type |-> TerritoryType(dto.territory_type_id, dto.territory_type_name),
     name |-> dto.name,
     capacity_real |-> dto.capacity_real,
     properties |-> dto.properties,
     created_at |-> dto.created_at,
     updated_at |-> dto.updated_at]

Extend(r, extra) ==
    [f \in DOMAIN r \cup DOMAIN extra |-> IF f \in DOMAIN extra THEN extra[f] ELSE r[f]]

ServicesData_from_dto(dto, now) == Construct(CommonKwargs(dto, now))

ServiceWithTerritories_from_dto(dto, now) ==
    Construct(Extend(CommonKwargs(dto, now),
                     [territories |->
                        MapSeq(dto.territories,
                               LAMBDA t : ShortTerritory(t.territory_id, t.name))]))

ServicesDataWithGeometry_from_dto(dto, now) ==
    Construct(Extend(CommonKwargs(dto, now),
                     [geometry |-> from_shapely_geometry(dto.geometry),
                      centre_point |-> from_shapely_geometry(dto.centre_point)]))

\* ------------------------------------------------------ EntityNotFoundById
HTTP_404_NOT_FOUND == 404

EntityNotFoundById(requested_id, entity) ==
    [requested_id |-> requested_id, entity |-> entity]

EntityNotFoundById_str_swapped(e) ==
    "Entity '" \o ToString(e.requested_id) \o "' with id=" \o e.entity \o " is not found"

EntityNotFoundById_str(e) ==
    "Entity '" \o e.entity \o "' with id=" \o ToString(e.requested_id) \o " is not found"

get_status_code(e) == HTTP_404_NOT_FOUND

\* ----------------------------------------------------------------- state
VARIABLES pc, op, input, outcome, clock, posts, heap, mutated

vars == <<pc, op, input, outcome, clock, posts, heap, mutated>>

reqVars == <<pc, op, input, outcome, clock>>

postVars == <<posts, heap, mutated>>

NoInput == Null

NoOutcome == [kind |-> "none", record |-> Null, errors |-> {}]

PatchKeys == PatchFields \cup {ExtraKey}

Distinct(items) == \A i, j \in DOMAIN items : i # j => items[i][1] # items[j][1]

ObjectBodies ==
    {ObjV(s) : s \in {q \in UNION {[1..n -> PatchKeys \X Values] : n \in 0..MaxKeys} :
                         Distinct(q)}}

NonObjectBodies == {Null, ListV(<<>>), ListV(<<IntV(1)>>), StrV(""), StrV("a")}

PatchBodies == ObjectBodies \cup NonObjectBodies

PutKeys == PutFields \cup {"physical_object_id"}

PutBodies == UNION {[K -> Values] : K \in SUBSET PutKeys}

Territories == {[territory_id |-> 1, name |-> "Saint Petersburg"],
                [territory_id |-> 2, name |-> "Moscow"]}

Polygon == [geom_type |-> "Polygon", coords |-> <<<<0, 0>>, <<0, 1>>, <<1, 1>>, <<0, 0>>>>]

Point == [geom_type |-> "Point", coords |-> <<1, 2>>]

\* DTOs as the persistence layer returns them; the territory type columns
\* come from an outer join and are null together
ServiceDTOs ==
    {[service_id |-> 10, service_type_id |-> 11, urban_function_id |-> 12,
      service_type_name |-> "School", service_type_capacity_modeled |-> cm,
      service_type_code |-> "1", territory_type_id |-> tt[1],
      territory_type_name |-> tt[2], name |-> n, capacity_real |-> c,
      properties |-> p, created_at |-> ca, updated_at |-> ua,
      territories |-> ts, geometry |-> Polygon, centre_point |-> Point] :
        cm \in {Null, IntV(13)},
        tt \in {<<Null, Null>>, <<IntV(14), StrV("City")>>},
        n \in {Null, StrV("a")},
        c \in {Null, IntV(15)},
        p \in {MapV({}), MapV({"k"})},
        ca \in 1..MaxTime, ua \in 1..MaxTime,
        ts \in UNION {[1..k -> Territories] : k \in 0..MaxTerritories}}

RequestedIds == {-1, 0, 42}

Entities == {"territory", "service"}

Init ==
    /\ pc = "idle"
    /\ op = "none"
    /\ input = NoInput
    /\ outcome = NoOutcome
    /\ clock = MaxTime + 1
    /\ posts = <<>>
    /\ heap = <<>>
    /\ mutated = {}

ValidatePatch ==
    /\ pc = "idle"
    /\ \E body \in PatchBodies :
          /\ input' = body
          /\ outcome' = ServicesDataPatch(body)
    /\ op' = "patch"
    /\ pc' = "done"
    /\ UNCHANGED <<clock, postVars>>

ValidatePut ==
    /\ pc = "idle"
    /\ \E body \in PutBodies :
          /\ input' = body
          /\ outcome' = ServicesDataPut(body)
    /\ op' = "put"
    /\ pc' = "done"
    /\ UNCHANGED <<clock, postVars>>

ProjectService ==
    /\ pc = "idle"
    /\ \E dto \in ServiceDTOs :
          /\ input' = dto
          /\ outcome' = ServicesData_from_dto(dto, clock)
    /\ op' = "ServicesData"
    /\ pc' = "done"
    /\ UNCHANGED <<clock, postVars>>

ProjectServiceWithTerritories ==
    /\ pc = "idle"
    /\ \E dto \in ServiceDTOs :
          /\ input' = dto
          /\ outcome' = ServiceWithTerritories_from_dto(dto, clock)
    /\ op' = "ServiceWithTerritories"
    /\ pc' = "done"
    /\ UNCHANGED <<clock, postVars>>

ProjectServiceWithGeometry ==
    /\ pc = "idle"
    /\ \E dto \in ServiceDTOs :
          /\ input' = dto
          /\ outcome' = ServicesDataWithGeometry_from_dto(dto, clock)
    /\ op' = "ServicesDataWithGeometry"
    /\ pc' = "done"
    /\ UNCHANGED <<clock, postVars>>

RaiseNotFound ==
    /\ pc = "idle"
    /\ \E id \in RequestedIds, entity \in Entities :
          LET e == EntityNotFoundById(id, entity)
          IN  /\ input' = e
              /\ outcome' = [kind |-> "EntityNotFoundById",
                             record |-> [message |-> EntityNotFoundById_str(e),
                                         status_code |-> get_status_code(e)],
                             errors |-> {}]
    /\ op' = "not_found"
    /\ pc' = "done"
    /\ UNCHANGED <<clock, postVars>>

\* the request is over; nothing is retained
Return ==
    /\ pc = "done"
    /\ pc' = "idle"
    /\ op' = "none"
    /\ input' = NoInput
    /\ outcome' = NoOutcome
    /\ UNCHANGED <<clock, postVars>>

Next ==
    \/ ValidatePatch
    \/ ValidatePut
    \/ ProjectService
    \/ ProjectServiceWithTerritories
    \/ ProjectServiceWithGeometry
    \/ RaiseNotFound
    \/ Return

Spec == Init /\ [][Next]_vars

\* ------------------------------------------------- create records in memory
Absent == [t |-> "absent"]

PostOptions(k) ==
    CASE k \in {"physical_object_id", "object_geometry_id"} -> {Absent, IntV(1)}
      [] k = "service_type_id" -> {Absent, Null, IntV(1)}
      [] k = "territory_type_id" -> {Absent, Null}
      [] k = "name" -> {Absent, StrV("a")}
      [] k = "capacity_real" -> {Absent, IntV(1)}
      [] k = "properties" -> {Absent, Null, MapV({}), MapV({"k"})}

PostChoices ==
    {c \in [PostFields -> {Absent, Null, IntV(1), StrV("a"), MapV({}), MapV({"k"})}] :
        \A k \in PostFields : c[k] \in PostOptions(k)}

PostBodies ==
    {[k \in {f \in PostFields : c[f] # Absent} |-> c[k]] : c \in PostChoices}

NewKeys == {"x"}

\* the properties map of create record i
Props(i) == heap[posts[i].properties]

\* ServicesDataPost(**body): validate, then materialise the properties dict
CreatePost ==
    /\ Len(posts) < MaxPosts
    /\ \E body \in PostBodies :
          LET r == ServicesDataPostFields(body)
          IN  IF r.kind # "ok"
              THEN /\ outcome' = r
                   /\ UNCHANGED postVars
              ELSE LET ref == IF "properties" \in r.record.fields_set
                              THEN Len(heap) + 1
                              ELSE default_factory(posts, heap)
                       init == IF "properties" \in r.record.fields_set
                               THEN body["properties"].m
                               ELSE {}
                   IN  /\ heap' = IF ref > Len(heap) THEN Append(heap, init) ELSE heap
                       /\ posts' = Append(posts, [fields_set |-> r.record.fields_set,
                                                  values |-> r.record.values,
                                                  properties |-> ref])
                       /\ outcome' = Accepted(Null)
                       /\ UNCHANGED mutated
    /\ UNCHANGED <<pc, op, input, clock>>

\* the holder of record i writes a key into its properties map
AddProperty ==
    /\ \E i \in DOMAIN posts, k \in NewKeys :
          /\ k \notin Props(i)
          /\ heap' = [heap EXCEPT ![posts[i].properties] = @ \cup {k}]
          /\ mutated' = mutated \cup {i}
    /\ UNCHANGED <<reqVars, posts>>

NextPost ==
    \/ CreatePost
    \/ AddProperty

SpecPost == Init /\ [][NextPost]_vars

\* ======================================================== checked properties
ProjectionOps == {"ServicesData", "ServiceWithTerritories", "ServicesDataWithGeometry"}

EmptyBodyMessage == "request body cannot be empty"

NullKeys(items) == {items[i][1] : i \in {j \in DOMAIN items : items[j][2] = Null}}

\* C1: a PATCH body with no keys is always rejected, with the validation
\* error "request body cannot be empty"; it is never accepted.
C1_EmptyPatchRejected ==
    (op = "patch" /\ input = ObjV(<<>>)) =>
        /\ outcome.kind = "ValidationError"
        /\ outcome.errors = {EmptyBodyMessage}

C1_Witness ==
    /\ op = "patch"
    /\ input = ObjV(<<>>)
    /\ outcome.kind = "ValidationError"

\* C2: a non-empty PATCH body holding a null under any key (declared or
\* not) is rejected with "<k> cannot be null" for a null-valued key k of the
\* body, whatever the other keys hold.
C2_NullRejected ==
    (op = "patch" /\ input.t = "obj" /\ NullKeys(input.items) # {}) =>
        /\ outcome.kind = "ValidationError"
        /\ \E k \in NullKeys(input.items) : outcome.errors = {k \o " cannot be null"}

C2_Witness ==
    /\ op = "patch"
    /\ input.t = "obj"
    /\ Len(input.items) = 2
    /\ input.items[1] = <<"name", StrV("a")>>
    /\ input.items[2] = <<ExtraKey, Null>>
    /\ outcome.errors = {"comment cannot be null"}

SingleDeclared ==
    /\ op = "patch"
    /\ input.t = "obj"
    /\ Len(input.items) = 1
    /\ input.items[1][1] \in PatchFields
    /\ input.items[1][2] # Null

C4_AcceptedPatchChangesSomething ==
    (op = "patch" /\ outcome.kind = "ok") =>
        \E f \in outcome.record.fields_set :
            f \in PatchFields /\ outcome.record.values[f] # Null

ExpectedMessage ==
    [e \in [requested_id : RequestedIds, entity : Entities] |->
        CASE e.entity = "territory" /\ e.requested_id = 42 ->
                "Entity 'territory' with id=42 is not found"
          [] e.entity = "territory" /\ e.requested_id = 0 ->
                "Entity 'territory' with id=0 is not found"
          [] e.entity = "territory" /\ e.requested_id = -1 ->
                "Entity 'territory' with id=-1 is not found"
          [] e.entity = "service" /\ e.requested_id = 42 ->
                "Entity 'service' with id=42 is not found"
          [] e.entity = "service" /\ e.requested_id = 0 ->
                "Entity 'service' with id=0 is not found"
          [] e.entity = "service" /\ e.requested_id = -1 ->
                "Entity 'service' with id=-1 is not found"]

\* C6: EntityNotFoundById renders as "Entity '<entity>' with id=<id> is not
\* found" and its status code is 404 for every identifier and entity name.
C6_NotFoundRendering ==
    (op = "not_found") =>
        /\ outcome.record.message = ExpectedMessage[input]
        /\ outcome.record.status_code = 404

C6_Witness ==
    /\ op = "not_found"
    /\ input = EntityNotFoundById(42, "territory")
    /\ outcome.record.message = "Entity 'territory' with id=42 is not found"

\* C7: a create record built without properties has the empty map as its
\* properties (an existing object, never null), and that map is its own:
\* writes to another record's properties leave it empty.
C7_DefaultPropertiesOwned ==
    \A i \in DOMAIN posts :
        ("properties" \notin posts[i].fields_set) =>
            /\ posts[i].properties \in DOMAIN heap
            /\ (i \notin mutated => Props(i) = {})

C7_Witness ==
    /\ Len(posts) = 2
    /\ "properties" \notin posts[1].fields_set
    /\ "properties" \notin posts[2].fields_set
    /\ mutated = {1}
    /\ Props(1) = {"x"}
    /\ Props(2) = {}

PutNullable == {"territory_type_id", "name", "capacity_real"}

FieldOrder == <<"service_type_id", "territory_type_id", "name", "capacity_real", "properties">>

\* the body, as an ordered object holding its declared fields
AsObject(body) ==
    ObjV(MapSeq(SelectSeq(FieldOrder, LAMBDA f : f \in DOMAIN body),
                LAMBDA f : <<f, body[f]>>))

\* C8 as stated: ServicesDataPut has the fields of ServicesDataPost and
\* requires each of them, so an accepted PUT body supplies every field of
\* ServicesDataPost.
C8_Original ==
    (op = "put" /\ outcome.kind = "ok") => PostFields \subseteq DOMAIN input

\* C8 (amended): ServicesDataPut declares service_type_id, territory_type_id,
\* name, capacity_real and properties (the fields of ServicesDataPost except
\* physical_object_id and object_geometry_id) and requires each of them: a
\* body leaving one out is rejected, a body supplying all of them with
\* values their types accept is accepted even when territory_type_id, name
\* or capacity_real is null, and that same body is rejected as a PATCH.
C8_PutRequiresAllOwnFields ==
    (op = "put") =>
        /\ PutFields = PostFields \ {"physical_object_id", "object_geometry_id"}
        /\ (~(PutFields \subseteq DOMAIN input) =>
               outcome.kind = "ValidationError" /\ "Field required" \in outcome.errors)
        /\ ((/\ PutFields \subseteq DOMAIN input
             /\ \A f \in PutFields \ PutNullable : ~IsErr(PutFieldDecode(f, input[f]))
             /\ \A f \in PutNullable :
                   input[f] = Null \/ ~IsErr(PutFieldDecode(f, input[f])))
              => /\ outcome.kind = "ok"
                 /\ outcome.record.fields_set = PutFields
                 /\ \A f \in PutNullable :
                       input[f] = Null =>
                          /\ outcome.record.values[f] = Null
                          /\ ServicesDataPatch(AsObject(input)).kind = "ValidationError")

C8_Witness ==
    /\ op = "put"
    /\ DOMAIN input = PutFields
    /\ input["name"] = Null
    /\ input["territory_type_id"] = Null
    /\ input["capacity_real"] = Null
    /\ outcome.kind = "ok"
    /\ ServicesDataPatch(AsObject(input)).errors = {"territory_type_id cannot be null"}

\* C9: each projection carries the DTO's fields over unchanged: service_type
\* is rebuilt from the flattened columns, scalars, properties and both
\* timestamps equal the DTO's, and territories keeps length, order and each
\* entry's territory_id and name.
C9_FieldsCarriedOver ==
    (op \in ProjectionOps /\ outcome.kind = "ok") =>
        LET r == outcome.record
        IN  /\ r.service_id = input.service_id
            /\ r.service_type =
                  [service_type_id |-> input.service_type_id,
                   urban_function_id |-> input.urban_function_id,
                   name |-> input.service_type_name,
                   capacity_modeled |-> input.service_type_capacity_modeled,
                   code |-> input.service_type_code]
            /\ r.name = input.name
            /\ r.capacity_real = input.capacity_real
            /\ r.properties = input.properties
            /\ r.created_at = input.created_at
            /\ r.updated_at = input.updated_at
            /\ (op = "ServiceWithTerritories" =>
                  /\ Len(r.territories) = Len(input.territories)
                  /\ \A i \in DOMAIN input.territories :
                        /\ r.territories[i].territory_id = input.territories[i].territory_id
                        /\ r.territories[i].name = input.territories[i].name)

C9_Witness ==
    /\ op = "ServiceWithTerritories"
    /\ outcome.kind = "ok"
    /\ Len(input.territories) = 2
    /\ input.territories[1].territory_id = 2
    /\ input.territories[2].territory_id = 1
    /\ input.created_at = 1
    /\ input.updated_at = 2
    /\ outcome.record.territories[1].name = "Moscow"

\* C10: PATCH validation of any body ends in acceptance or a validation
\* error, and a body that is empty or not an object at all (null, empty
\* list) is rejected with the empty-body validation error.
C10_OnlyValidationErrors ==
    (op = "patch") =>
        /\ outcome.kind \in {"ok", "ValidationError"}
        /\ (~Truthy(input) => outcome.errors = {EmptyBodyMessage})

====
